---- MODULE Spec2Model ----
(***************************************************************************)
(* The per-connection receive pipeline of net::tcp (recv_request and its   *)
(* helpers in src/src/tcp/tcp_connection.cpp).  One session: a fixed       *)
(* buffer, the count of unparsed bytes, the request parser, the metrics    *)
(* and the remaining time, driven by a read that is repeated until         *)
(* parse_request reports that the loop is over.                            *)
(*                                                                         *)
(* Time is counted in clock ticks, TicksPerSecond ticks to a second, so    *)
(* that duration_cast<seconds> is a real truncation.  The seconds          *)
(* representation is RepBits wide (64 in the build).                       *)
(***************************************************************************)
EXTENDS Integers, Sequences, FiniteSets, TLC

\* ------------------------------------------------------------------ bounds
Capacity == 8            \* size of recv_state::buffer (8192 in the build)
MaxClock == 7            \* the clock stops being advanced beyond this tick
TicksPerSecond == 2      \* resolution of system_clock relative to seconds
RepBits == 5             \* width of std::chrono::seconds::rep (64 in the build)

\* --------------------------------------------------------------- durations
MaxRep == 2^(RepBits - 1) - 1
MinRep == -(2^(RepBits - 1))

\* std::chrono::seconds::max(), the "never expires" sentinel
unlimited_timeout == MaxRep

\* the recv_option values a session may be configured with: 0 (expire at
\* once), real times, and the sentinel
Timeouts == {0, 1, 2, unlimited_timeout}

\* integer division truncating toward zero, as C++ does
TruncDiv(a, b) == IF a >= 0 THEN a \div b ELSE -((-a) \div b)

\* std::chrono::duration_cast<std::chrono::seconds>(d) of a tick count d
duration_cast_seconds(d) == TruncDiv(d, TicksPerSecond)

\* two's complement wrap-around of a value into the seconds representation
Wrap(x) == ((x - MinRep) % 2^RepBits) + MinRep

InRep(x) == x >= MinRep /\ x <= MaxRep

\* ------------------------------------------------------------------- bytes
\* "G","V" start-line tokens, "X" a byte no start line may hold, "r"/"n" the
\* line terminator, "L" the length header name, ":" the separator, "1" the
\* digit one, "d" a body byte, "z" the zero byte of a value-initialised buffer
Bytes == {"G", "V", "X", "r", "n", "L", ":", "1", "d", "z"}

MsgNoBody == <<"G", "V", "r", "n", "r", "n">>
MsgWithBody == <<"G", "V", "r", "n", "L", ":", "1", "r", "n", "r", "n", "d">>
MsgBadStart == <<"X", "r", "n", "r", "n">>

\* a start line that is longer than the buffer
MsgLongLine == [i \in 1..Capacity + 1 |-> "G"]

\* what the peer may send on the connection
Streams == {MsgNoBody, MsgWithBody, MsgBadStart, MsgLongLine}

\* ------------------------------------------------------------- error codes
ParseErrors == {"MalformedStartLine", "MalformedHeader", "BodyOverflow"}

TimeoutKinds == {"kRecvRequestTimeoutWithNothing", "kRecvRequestLineTimeout",
                 "kRecvRequestHeadersTimeout", "kRecvRequestBodyTimeout"}

MessageStates == {"kNothingYet", "kStartLine", "kExpectingNewline",
                  "kHeader", "kBody", "kCompleted"}

\* Get detailed error enum by message parser state.
detailed_error(mstate) ==
  CASE mstate = "kNothingYet" -> "kRecvRequestTimeoutWithNothing"
    [] mstate = "kStartLine" -> "kRecvRequestLineTimeout"
    [] mstate = "kExpectingNewline" -> "kRecvRequestLineTimeout"
    [] mstate = "kHeader" -> "kRecvRequestHeadersTimeout"
    [] mstate = "kBody" -> "kRecvRequestBodyTimeout"
    [] mstate = "kCompleted" -> "kSuccess"

\* std::error_code::operator bool: the code is not the success value
ec_bool(ec) == ec # "kSuccess"

check_parse_done(ec) == ec_bool(ec) /\ ec # "kNeedMore"

\* -------------------------------------------------------------- the parser
EmptyRequest == [line |-> <<>>, headers |-> <<>>, body |-> <<>>]

NewParser == [state |-> "kNothingYet", need |-> 0]

\* index of the first b in s, 0 when there is none
RECURSIVE IndexFrom(_, _, _)
IndexFrom(s, b, i) ==
  IF i > Len(s) THEN 0
  ELSE IF s[i] = b THEN i
  ELSE IndexFrom(s, b, i + 1)

IndexOf(s, b) == IndexFrom(s, b, 1)

ValidStartLines == {<<"G", "V">>}

\* the body length a header line declares (0 for any other header)
DeclaredLength(hline) ==
  IF hline = <<"L", ":", "1">> THEN 1 ELSE 0

ParseResult(k, ec, p, rq) ==
  [parsed_size |-> k, ec |-> ec, parser |-> p, request |-> rq]

\* RequestParser::Parse continued at offset k of the window ss
RECURSIVE ParseAt(_, _, _, _)
ParseAt(ss, k, p, rq) ==
  LET rest == SubSeq(ss, k + 1, Len(ss)) IN
  CASE p.state = "kNothingYet" ->
         IF rest = <<>> THEN ParseResult(k, "kNeedMore", p, rq)
         ELSE ParseAt(ss, k, [p EXCEPT !.state = "kStartLine"], rq)
    [] p.state = "kStartLine" ->
         LET i == IndexOf(rest, "r") IN
         IF i = 0 THEN ParseResult(k, "kNeedMore", p, rq)
         ELSE IF SubSeq(rest, 1, i - 1) \notin ValidStartLines
              THEN ParseResult(k, "MalformedStartLine", p, rq)
         ELSE ParseAt(ss, k + i, [p EXCEPT !.state = "kExpectingNewline"],
                      [rq EXCEPT !.line = SubSeq(rest, 1, i - 1)])
    [] p.state = "kExpectingNewline" ->
         IF rest = <<>> THEN ParseResult(k, "kNeedMore", p, rq)
         ELSE IF rest[1] # "n" THEN ParseResult(k, "MalformedStartLine", p, rq)
         ELSE ParseAt(ss, k + 1, [p EXCEPT !.state = "kHeader"], rq)
    [] p.state = "kHeader" ->
         LET i == IndexOf(rest, "r") IN
         IF i = 0 \/ i = Len(rest) THEN ParseResult(k, "kNeedMore", p, rq)
         ELSE IF rest[i + 1] # "n" THEN ParseResult(k, "MalformedHeader", p, rq)
         ELSE LET hline == SubSeq(rest, 1, i - 1) IN
              IF hline = <<>>
              THEN ParseAt(ss, k + 2,
                     [p EXCEPT !.state = IF p.need > 0 THEN "kBody" ELSE "kCompleted"], rq)
              ELSE IF IndexOf(hline, ":") = 0
                   THEN ParseResult(k, "MalformedHeader", p, rq)
              ELSE ParseAt(ss, k + i + 1,
                     [p EXCEPT !.need = IF DeclaredLength(hline) > 0
                                        THEN DeclaredLength(hline) ELSE @],
                     [rq EXCEPT !.headers = Append(@, hline)])
    [] p.state = "kBody" ->
         LET missing == p.need - Len(rq.body) IN
         IF Len(rest) > missing THEN ParseResult(k, "BodyOverflow", p, rq)
         ELSE IF Len(rest) < missing
              THEN ParseResult(k + Len(rest), "kNeedMore", p,
                               [rq EXCEPT !.body = @ \o rest])
         ELSE ParseAt(ss, k + Len(rest), [p EXCEPT !.state = "kCompleted"],
                      [rq EXCEPT !.body = @ \o rest])
    [] p.state = "kCompleted" -> ParseResult(k, "kSuccess", p, rq)

\* std::size_t RequestParser::Parse(ss, ec)
Parse(ss, p, rq) == ParseAt(ss, 0, p, rq)

\* std::string CopyArray(state.buffer): every byte of the array
CopyArray(buffer) == buffer

\* ------------------------------------------------------------ the session
VARIABLES
  pc,           \* "init", "reading" (one read outstanding) or "done"
  opt,          \* the recv_option of the session
  stream,       \* the bytes the peer sends
  pos,          \* how many bytes of stream have been received
  state,        \* the recv_state
  clock,        \* system_clock::now(), in ticks
  read_start,   \* the tick at which the outstanding read was issued
  recv_span,    \* offset of the span handed to read_some when the sender was built
  timeout_dur,  \* duration handed to ex::timeout when the sender was built
  result,       \* what the pipeline completed with
  cause,        \* why the loop was left
  last_ec,      \* the error code of the latest Parse call
  consumed,     \* total of the sizes Parse reported as parsed
  waited,       \* ticks spent waiting in reads
  measured,     \* sum over the reads of duration_cast<seconds>(stop - start)
  reads,        \* number of reads issued
  parses        \* number of Parse calls

vars == <<pc, opt, stream, pos, state, clock, read_start, recv_span,
          timeout_dur, result, cause, last_ec, consumed, waited, measured,
          reads, parses>>

Zeros == [i \in 1..Capacity |-> "z"]

NoMetric == [first |-> 0, last |-> 0, elapsed |-> 0, total |-> 0]

\* recv_state{}
NewState == [buffer |-> Zeros, unparsed_size |-> 0, parser |-> NewParser,
             request |-> EmptyRequest, metric |-> NoMetric,
             remaining_time |-> unlimited_timeout]

NoResult == [kind |-> "none", ec |-> "none", request |-> EmptyRequest,
             metric |-> NoMetric]

just(rq, m) == [kind |-> "value", ec |-> "none", request |-> rq, metric |-> m]

just_error(ec) == [kind |-> "error", ec |-> ec, request |-> EmptyRequest,
                   metric |-> NoMetric]

\* the process ends in a trap (overflow or out-of-range access detected)
Aborted == [kind |-> "abort", ec |-> "none", request |-> EmptyRequest,
            metric |-> NoMetric]

\* initialize_state preferring total_timeout over keepalive_timeout
initialize_state_swapped(s, o) ==
  IF o.total_timeout # unlimited_timeout
  THEN [s EXCEPT !.remaining_time = o.total_timeout]
  ELSE [s EXCEPT !.remaining_time = o.keepalive_timeout]

initialize_state(s, o) ==
  IF o.keepalive_timeout # unlimited_timeout
  THEN [s EXCEPT !.remaining_time = o.keepalive_timeout]
  ELSE [s EXCEPT !.remaining_time = o.total_timeout]

\* std::span{state.buffer}.subspan(state.unparsed_size): its offset
recv_buffer(s) == s.unparsed_size

\* the elapsed time update_state computes
update_elapsed(start, stop) == duration_cast_seconds(start - stop)

\* update_state leaves the range of the seconds representation
update_overflows(start, stop, s) ==
  \/ ~InRep(s.remaining_time - update_elapsed(start, stop))
  \/ ~InRep(s.metric.elapsed + update_elapsed(start, stop))

\* update_state taking the elapsed time off the budget with the other sign
\* than the one it adds to the metrics
update_state_mixed_sign(start, stop, recv_size, s) ==
  LET elapsed == update_elapsed(start, stop) IN
  [s EXCEPT !.metric.first = IF @ = 0 THEN start ELSE @,
            !.metric.last = stop,
            !.metric.elapsed = Wrap(@ + elapsed),
            !.metric.total = @ + recv_size,
            !.unparsed_size = @ + recv_size,
            !.remaining_time = Wrap(@ + elapsed)]

update_state(start, stop, recv_size, s) ==
  LET elapsed == update_elapsed(start, stop) IN
  [s EXCEPT !.metric.first = IF @ = 0 THEN start ELSE @,
            !.metric.last = stop,
            !.metric.elapsed = Wrap(@ + elapsed),
            !.metric.total = @ + recv_size,
            !.unparsed_size = @ + recv_size,
            !.remaining_time = Wrap(@ - elapsed)]

\* read_some stores the bytes it received at the start of its span
WriteAt(buffer, off, chunk) ==
  [i \in 1..Capacity |->
     IF i > off /\ i <= off + Len(chunk) THEN chunk[i - off] ELSE buffer[i]]

\* a byte of the buffer, or of the zeroed memory behind it
ByteAt(buffer, i) == IF i \in 1..Capacity THEN buffer[i] ELSE "z"

\* memcpy copying upward: every source byte is read before it is overwritten
MemcpyForward(buffer, k, n) ==
  [i \in 1..Capacity |-> IF i <= n THEN ByteAt(buffer, k + i) ELSE buffer[i]]

\* memcpy copying downward: a source byte below n was overwritten before
RECURSIVE BackwardByte(_, _, _, _)
BackwardByte(buffer, k, n, i) ==
  IF k >= 1 /\ k + i <= n THEN BackwardByte(buffer, k, n, k + i)
  ELSE ByteAt(buffer, k + i)

MemcpyBackward(buffer, k, n) ==
  [i \in 1..Capacity |-> IF i <= n THEN BackwardByte(buffer, k, n, i) ELSE buffer[i]]

\* ::memcpy(buffer.begin(), buffer.begin() + k, n); overlapping ranges leave
\* the direction of the copy to the library
CopyOrders == {"forward", "backward"}

memcpy(buffer, k, n, order) ==
  IF order = "forward" THEN MemcpyForward(buffer, k, n)
  ELSE MemcpyBackward(buffer, k, n)

\* the memcpy of parse_request reaches outside the buffer
memcpy_out_of_range(k, n) == k + n > Capacity

\* parse_request: [state, done, ec, parsed_size, fault]
parse_request(s, order) ==
  LET ss == CopyArray(s.buffer)
      r == Parse(ss, s.parser, s.request)
      s1 == [s EXCEPT !.parser = r.parser, !.request = r.request]
      moves == r.ec = "kNeedMore" /\ r.parsed_size < s.unparsed_size
      left == s.unparsed_size - r.parsed_size
  IN [state |-> IF moves
                THEN [s1 EXCEPT !.unparsed_size = left,
                                !.buffer = memcpy(@, r.parsed_size, left, order)]
                ELSE s1,
      done |-> check_parse_done(r.ec),
      ec |-> r.ec,
      parsed_size |-> r.parsed_size,
      fault |-> moves /\ memcpy_out_of_range(r.parsed_size, left)]

finished(s) ==
  IF s.parser.state = "kCompleted"
  THEN just(s.request, s.metric)
  ELSE just_error(detailed_error(s.parser.state))

\* check_recv_size failing an empty read with the timeout code
check_recv_size_as_timeout(recv_size) ==
  IF recv_size # 0 THEN [kind |-> "value", size |-> recv_size]
  ELSE [kind |-> "error", ec |-> "kRecvTimeout"]

check_recv_size(recv_size) ==
  IF recv_size # 0 THEN [kind |-> "value", size |-> recv_size]
  ELSE [kind |-> "error", ec |-> "kEndOfStream"]

\* the timer of ex::timeout fires after this many ticks (never for the sentinel)
Armed == timeout_dur # unlimited_timeout

Deadline == read_start + timeout_dur * TicksPerSecond

\* the outstanding read may complete d ticks after it was issued
InTime(d) ==
  /\ clock + d <= MaxClock
  /\ Armed => clock + d < Deadline

Init ==
  /\ pc = "init"
  /\ opt \in [keepalive_timeout : Timeouts, total_timeout : Timeouts]
  /\ stream \in Streams
  /\ pos = 0
  /\ state = NewState
  /\ clock = 1
  /\ read_start = 0
  /\ recv_span = 0
  /\ timeout_dur = unlimited_timeout
  /\ result = NoResult
  /\ cause = "none"
  /\ last_ec = "none"
  /\ consumed = 0
  /\ waited = 0
  /\ measured = 0
  /\ reads = 0
  /\ parses = 0

\* recv_request up to the first read: the sender is built once, with the
\* span and the timeout as they are at that moment, and started
Start ==
  /\ pc = "init"
  /\ state' = initialize_state(state, opt)
  /\ recv_span' = recv_buffer(state')
  /\ timeout_dur' = state'.remaining_time
  /\ read_start' = clock
  /\ reads' = reads + 1
  /\ pc' = "reading"
  /\ UNCHANGED <<opt, stream, pos, clock, result, cause, last_ec, consumed,
                 waited, measured, parses>>

\* the loop is left: nothing of the session changes any more
Leave(res, why) ==
  /\ pc' = "done"
  /\ result' = res
  /\ cause' = why

\* read_some completes with n > 0 bytes after d ticks: update_state,
\* parse_request, then either the next read or finished
RecvData(n, d, order, trap) ==
  /\ pc = "reading"
  /\ n >= 1 /\ n <= Len(stream) - pos /\ n <= Capacity - recv_span
  /\ InTime(d)
  /\ check_recv_size(n).kind = "value"
  /\ LET stop == clock + d
         chunk == SubSeq(stream, pos + 1, pos + n)
         written == [state EXCEPT !.buffer = WriteAt(@, recv_span, chunk)]
         updated == update_state(read_start, stop, n, written)
         pr == parse_request(updated, order)
     IN /\ clock' = stop
        /\ pos' = pos + n
        /\ waited' = waited + d
        /\ measured' = measured + duration_cast_seconds(stop - read_start)
        /\ IF trap /\ update_overflows(read_start, stop, written)
           THEN /\ Leave(Aborted, "abort")
                /\ state' = written
                /\ UNCHANGED <<last_ec, consumed, parses, reads, read_start>>
           ELSE /\ last_ec' = pr.ec
                /\ parses' = parses + 1
                /\ consumed' = consumed + pr.parsed_size
                /\ state' = pr.state
                /\ IF trap /\ pr.fault
                   THEN /\ Leave(Aborted, "abort")
                        /\ UNCHANGED <<reads, read_start>>
                   ELSE IF pr.done
                   THEN /\ Leave(finished(pr.state), "parse")
                        /\ UNCHANGED <<reads, read_start>>
                   ELSE /\ pc' = "reading"
                        /\ read_start' = stop
                        /\ reads' = reads + 1
                        /\ UNCHANGED <<result, cause>>
  /\ UNCHANGED <<opt, stream, recv_span, timeout_dur>>

\* read_some completes with 0 bytes: check_recv_size fails the pipeline
RecvEof(d) ==
  /\ pc = "reading"
  /\ InTime(d)
  /\ check_recv_size(0).kind = "error"
  /\ clock' = clock + d
  /\ waited' = waited + d
  /\ Leave(just_error(check_recv_size(0).ec), "eof")
  /\ UNCHANGED <<opt, stream, pos, state, read_start, recv_span, timeout_dur,
                 last_ec, consumed, measured, reads, parses>>

\* what let_stopped makes of a stopped read
let_stopped == just_error("kRecvTimeout")

\* the timer of ex::timeout fires first: the read is stopped
Timeout ==
  /\ pc = "reading"
  /\ Armed
  /\ Deadline <= MaxClock
  /\ clock' = Deadline
  /\ waited' = waited + (Deadline - clock)
  /\ Leave(let_stopped, "timeout")
  /\ UNCHANGED <<opt, stream, pos, state, read_start, recv_span, timeout_dur,
                 last_ec, consumed, measured, reads, parses>>

\* a stop request from outside reaches the outstanding read after d ticks
Cancel(d) ==
  /\ pc = "reading"
  /\ InTime(d)
  /\ clock' = clock + d
  /\ waited' = waited + d
  /\ Leave(let_stopped, "cancel")
  /\ UNCHANGED <<opt, stream, pos, state, read_start, recv_span, timeout_dur,
                 last_ec, consumed, measured, reads, parses>>

Delays == 0..MaxClock

Next ==
  \/ Start
  \/ \E n \in 1..Capacity, d \in Delays, order \in CopyOrders, trap \in BOOLEAN :
       RecvData(n, d, order, trap)
  \/ \E d \in Delays : RecvEof(d)
  \/ Timeout
  \/ \E d \in Delays : Cancel(d)

Spec == Init /\ [][Next]_vars

TypeOK ==
  /\ pc \in {"init", "reading", "done"}
  /\ state.parser.state \in MessageStates
  /\ pos \in 0..Len(stream)
  /\ clock \in 1..MaxClock
  /\ InRep(state.remaining_time)
  /\ state.buffer \in [1..Capacity -> Bytes]
  /\ \A i \in 1..Len(stream) : stream[i] \in Bytes

\* ----------------------------------------------------------- the claims
AllTimeouts == TimeoutKinds \cup {"kRecvTimeout"}

FiniteBudget == timeout_dur # unlimited_timeout

Received == SubSeq(stream, 1, pos)

\* a message the parser accepts whole when it is handed exactly its bytes
WellFormed(m) ==
  LET r == Parse(m, NewParser, EmptyRequest)
  IN r.ec = "kSuccess" /\ r.parsed_size = Len(m)

\* the request the session holds after m arrived in one read
OneReadRequest(m) ==
  LET written == [NewState EXCEPT !.buffer = WriteAt(@, 0, m)]
      updated == update_state(1, 1, Len(m), written)
  IN parse_request(updated, "forward").state.request

\* C1: a read whose deadline elapses before bytes arrive fails the pipeline
\* with the timeout kind of the parser state at expiry (kNothingYet ->
\* nothing-yet timeout, start line states -> line timeout, kHeader -> headers
\* timeout, kBody -> body timeout), never with a generic timeout.
C1_StateSpecificTimeout ==
  cause = "timeout" =>
    /\ result.kind = "error"
    /\ result.ec \in TimeoutKinds
    /\ result.ec = detailed_error(state.parser.state)

\* C2: when Parse returns a parse error the pipeline stops with exactly that
\* parse error and without a request.
C2_ParseErrorIsOutcome ==
  (cause = "parse" /\ last_ec \in ParseErrors) =>
    /\ result.kind = "error"
    /\ result.ec = last_ec

\* C3: once the parser is done (kCompleted) or a parse error was returned,
\* the loop is over: no read is outstanding and none will be issued.
C3_TerminalIdempotence ==
  (state.parser.state = "kCompleted" \/ last_ec \in ParseErrors) => pc = "done"

\* C4: when every byte of a well-formed message that fits the buffer has
\* arrived, in whatever chunks, the session holds the request one read of the
\* whole message gives and the parser has consumed exactly len(M) bytes.
C4_ChunkInvariance ==
  (/\ pc # "init"
   /\ WellFormed(stream)
   /\ Len(stream) <= Capacity
   /\ pos = Len(stream)
   /\ cause # "abort") =>
    /\ state.request = OneReadRequest(stream)
    /\ consumed = Len(stream)

\* C5: while the loop runs, the first unparsed_size bytes of the buffer are
\* the bytes received and not yet consumed by the parser, in arrival order.
C5_CompactionCorrect ==
  (pc = "reading" /\ last_ec \in {"none", "kNeedMore"}) =>
    /\ state.unparsed_size <= Capacity
    /\ consumed + state.unparsed_size = pos
    /\ SubSeq(state.buffer, 1, state.unparsed_size)
         = SubSeq(Received, consumed + 1, pos)

\* C6: with a finite budget, remaining_time is the initial budget minus the
\* sum of the measured (stop - start) times of the reads so far.
C6_MonotonicBudget ==
  (pc # "init" /\ FiniteBudget /\ cause # "abort") =>
    state.remaining_time = timeout_dur - measured

\* C7: the outstanding read is armed with the remaining_time of the moment
\* it was issued.
C7_ArmedWithRemaining ==
  pc = "reading" => timeout_dur = state.remaining_time

\* C8: with a finite budget the time spent waiting in the reads of one
\* message never exceeds the initial budget.
C8_TotalWaitBounded ==
  (pc # "init" /\ FiniteBudget) => waited <= timeout_dur * TicksPerSecond

\* C9: a cancelled read gives an outcome that is no timeout, no end of
\* stream, no parse error and no request.
C9_CancelIsDistinct ==
  cause = "cancel" =>
    /\ result.kind # "value"
    /\ ~(result.kind = "error"
         /\ result.ec \in AllTimeouts \cup {"kEndOfStream"} \cup ParseErrors)

\* C10: when the loop is left, the outcome is the request and the metrics
\* exactly if the parser is in kCompleted, and an error otherwise.
C10_SuccessIffCompleted ==
  (pc = "done" /\ cause # "abort") =>
    /\ result.kind \in {"value", "error"}
    /\ result.kind = "value" <=> state.parser.state = "kCompleted"

\* the step is a read completing with bytes whose handling ran to its end
DataStep == pc = "reading" /\ pos' > pos /\ cause' # "abort"

\* C11: a read that completes with 0 bytes fails the pipeline with
\* kEndOfStream; the metrics, unparsed_size and remaining_time (all of the
\* recv_state) stay as they were and Parse is not called.
C11_EofFailsUntouched ==
  [][(pc = "reading" /\ cause' = "eof") =>
       /\ result' = just_error("kEndOfStream")
       /\ state' = state
       /\ parses' = parses]_vars

\* an empty read arrived after some bytes had been received and parsed
C11_Witness ==
  cause = "eof" /\ pos > 0 /\ parses > 0 /\ state.metric.total = pos

\* C12: no read is outstanding while the write window (the buffer behind
\* unparsed_size) is empty and the parser is not done: the pipeline fails
\* with MessageTooLarge instead of issuing that read.
C12_EmptyWindowFails ==
  (pc = "reading" /\ state.parser.state # "kCompleted") =>
    state.unparsed_size < Capacity

\* C13: unparsed_size never exceeds the capacity of the buffer.
C13_UnparsedWithinCapacity ==
  state.unparsed_size <= Capacity

\* C14: the outstanding read was issued into the write window of the moment,
\* the span of the buffer that starts at offset unparsed_size.
C14_ReadIntoWriteWindow ==
  pc = "reading" => recv_span = state.unparsed_size

\* C15: a read is outstanding only while remaining_time is strictly positive
\* or the sentinel.
C15_ReadOnlyWithBudget ==
  pc = "reading" => state.remaining_time > 0

\* C16: initialize_state seeds remaining_time with keepalive_timeout when
\* that is finite and with total_timeout otherwise (the sentinel when both
\* are the sentinel).
C16_SeedBudget ==
  (pc = "reading" /\ parses = 0) =>
    state.remaining_time =
      (IF opt.keepalive_timeout = unlimited_timeout
       THEN opt.total_timeout ELSE opt.keepalive_timeout)

\* the session started with two different finite timeouts
C16_Witness ==
  /\ pc = "reading" /\ parses = 0
  /\ opt.keepalive_timeout # unlimited_timeout
  /\ opt.total_timeout # unlimited_timeout
  /\ opt.keepalive_timeout # opt.total_timeout
  /\ state.remaining_time = opt.keepalive_timeout

\* C17: a session seeded with the sentinel keeps remaining_time at the
\* sentinel whatever time its reads take, and never ends by a timeout.
C17_SentinelNeverExpires ==
  (pc # "init" /\ timeout_dur = unlimited_timeout) =>
    /\ state.remaining_time = unlimited_timeout
    /\ cause # "timeout"

\* C18: a read that completes with n > 0 bytes sets metric.time.first only
\* when it is unset, sets metric.time.last to the completion time, adds the
\* non-negative stop - start to metric.time.elapsed and n to metric.size.total.
C18_MetricsUpdate ==
  [][DataStep =>
       /\ state'.metric.first =
            (IF state.metric.first = 0 THEN read_start ELSE state.metric.first)
       /\ state'.metric.last = clock'
       /\ state'.metric.elapsed =
            state.metric.elapsed + duration_cast_seconds(clock' - read_start)
       /\ state'.metric.elapsed >= state.metric.elapsed
       /\ state'.metric.total = state.metric.total + (pos' - pos)]_vars

\* C19: after a Parse call that consumed k bytes and returned kNeedMore,
\* unparsed_size is what it was plus the bytes just received minus k.
C19_CompactByConsumed ==
  [][(DataStep /\ last_ec' = "kNeedMore") =>
       state'.unparsed_size =
         state.unparsed_size + (pos' - pos) - (consumed' - consumed)]_vars

\* what parse_request reports and leaves of the request, for either copy order
ParseView(s) ==
  LET pr == parse_request(s, "forward")
  IN [parsed_size |-> pr.parsed_size, ec |-> pr.ec,
      request |-> pr.state.request, parser |-> pr.state.parser]

\* C20: parse_request depends only on buffer[0, unparsed_size): a session
\* that differs from this one in one byte at or behind offset unparsed_size
\* gets the same consumed count, outcome and request.
C20_ParseOnlyWindow ==
  pc = "reading" =>
    \A i \in 1..Capacity : \A b \in Bytes :
      i > state.unparsed_size =>
        ParseView([state EXCEPT !.buffer[i] = b]) = ParseView(state)

\* the budget initialize_state seeds the session with
SeededBudget ==
  IF opt.keepalive_timeout = unlimited_timeout
  THEN opt.total_timeout ELSE opt.keepalive_timeout

====
